---- MODULE Spec2Model ----
(***************************************************************************)
(* lxqt-brightness-notifier (src/main.rs): one run of the command.         *)
(*                                                                         *)
(* A run parses its command line, optionally issues one brightness         *)
(* changing xbacklight command, reads the brightness back with             *)
(* `xbacklight -get` and shows a desktop notification.  The external       *)
(* program and the notification server are the environment: every outcome  *)
(* they can produce is a nondeterministic choice of the action that calls  *)
(* them.  Every external call is appended to `calls` with its outcome.     *)
(*                                                                         *)
(* An Option<T> of the source is a set with at most one element: None is   *)
(* {} and Some(x) is {x}.                                                  *)
(*                                                                         *)
(* A command line is modelled by the seven options struct Args declares,   *)
(* each given at most once.  The --help and --version output clap adds to  *)
(* every derived parser (print and exit 0, nothing called) is not part of  *)
(* the model.  Values are small integers: a --timeout beyond the i32 range *)
(* is not enumerated.                                                      *)
(***************************************************************************)
EXTENDS Integers, Sequences, FiniteSets

VARIABLES
    argv,        \* the command line: per option, whether given and with which value
    args,        \* struct Args, as filled by Args::parse()
    pc,          \* position in main()
    site,        \* which call of display_notification is running: "get" or "final"
    xbOutput,    \* what `xbacklight -get` produced (Option)
    brightness,  \* Option<u8> returned by get_current_brightness()
    shown,       \* Option<u8> returned by display_notification()
    calls,       \* the external calls made so far, in order, with their outcomes
    stderr,      \* lines written to standard error
    stdout,      \* lines written to standard output
    exit_code    \* Option: the process exit status once exited

vars == <<argv, args, pc, site, xbOutput, brightness, shown, calls, stderr, stdout, exit_code>>

(***************************************************************************)
(* Bounds of the model.                                                    *)
(***************************************************************************)
\* How far beyond each end of an option's range the enumerated values go.
Margin == 1
\* Sub-units per whole percent in the decimal number xbacklight prints
\* (4: the fractions .0 .25 .5 .75).
Unit == 4
\* How many whole percents beyond the ends of the u8 range the printed number goes.
OutMargin == 2

(***************************************************************************)
(* Program constants.                                                      *)
(***************************************************************************)
U8Max == 255
DefaultMissingStep == 5
SetMin == 1
SetMax == 100
DefaultTimeout == 2000
DefaultFade == 100
FadeMax == 60000
DefaultSteps == 25
StepsMin == 1
StepsMax == 200
LowBelow == 33
MediumBelow == 66
NotificationId == 1
ExitSuccess == 0
ExitFailure == 1
ClapUsageExit == 2

(***************************************************************************)
(* The command line.                                                       *)
(***************************************************************************)
Absent == [given |-> FALSE, value |-> {}]
Bare == [given |-> TRUE, value |-> {}]
With(v) == [given |-> TRUE, value |-> {v}]

ActionFlags == {"increase", "decrease", "set", "get"}

\* conflicts_with_all of each option.
ConflictsWith(opt) ==
    CASE opt = "increase" -> {"set", "get"}
      [] opt = "decrease" -> {"set", "get"}
      [] opt = "set" -> {"increase", "decrease", "get"}
      [] opt = "get" -> {"increase", "decrease", "set"}
      [] OTHER -> {}

\* clap reports a conflict when two given options are declared conflicting
\* by either of them.
HasConflict(a) ==
    \E x \in ActionFlags : \E y \in ActionFlags :
        /\ a[x].given
        /\ a[y].given
        /\ y \in ConflictsWith(x)

\* value_parser of an Option<u8> field.
IsU8(v) == v \in 0..U8Max

\* Mutant of SetValueOk: the range starts at 0.
SetValueOkFromZero(v) == IsU8(v) /\ v \in (0..SetMax)

\* value_parser!(u8).range(1..=100)
SetValueOk(v) == IsU8(v) /\ v \in (SetMin..SetMax)

\* value_parser!(u32).range(..=60000)
FadeValueOk(v) == v >= 0 /\ v <= FadeMax

\* value_parser!(u32).range(1..=200)
StepsValueOk(v) == v >= 0 /\ v \in (StepsMin..StepsMax)

\* Only --increase and --decrease take num_args = 0..=1; every other option
\* that takes a value needs one.
ValuesOk(a) ==
    /\ \A v \in a.increase.value : IsU8(v)
    /\ \A v \in a.decrease.value : IsU8(v)
    /\ a.set.given => (a.set.value # {} /\ \A v \in a.set.value : SetValueOk(v))
    /\ a.timeout.given => a.timeout.value # {}
    /\ a.fade.given => (a.fade.value # {} /\ \A v \in a.fade.value : FadeValueOk(v))
    /\ a.steps.given => (a.steps.value # {} /\ \A v \in a.steps.value : StepsValueOk(v))

Rejected(a) == ~ValuesOk(a) \/ HasConflict(a)

\* An Option<u8> with default_missing_value.
OptionalWithDefault(o, missing) ==
    IF ~o.given THEN {} ELSE IF o.value = {} THEN {missing} ELSE o.value

\* A field with default_value_t.
ValueOrDefault(o, default) ==
    IF o.given /\ o.value # {} THEN CHOOSE v \in o.value : TRUE ELSE default

ParsedArgs(a) ==
    [increase  |-> OptionalWithDefault(a.increase, DefaultMissingStep),
     decrease  |-> OptionalWithDefault(a.decrease, DefaultMissingStep),
     set       |-> a.set.value,
     get       |-> a.get.given,
     timeout   |-> ValueOrDefault(a.timeout, DefaultTimeout),
     fade_time |-> ValueOrDefault(a.fade, DefaultFade),
     steps     |-> ValueOrDefault(a.steps, DefaultSteps)]

EmptyCommandLine ==
    [increase |-> Absent, decrease |-> Absent, set |-> Absent, get |-> Absent,
     timeout |-> Absent, fade |-> Absent, steps |-> Absent]

(***************************************************************************)
(* The enumerated command lines: every option absent, or given with a      *)
(* value at or just beyond an end of its range.                            *)
(***************************************************************************)
AroundRange(lo, hi) == ((lo - Margin)..lo) \cup (hi..(hi + Margin))

StepInputs == {Absent, Bare} \cup {With(v) : v \in AroundRange(0, U8Max)}
SetInputs == {Absent} \cup {With(v) : v \in AroundRange(SetMin, SetMax)}
GetInputs == {Absent, Bare}
TimeoutInputs == {Absent} \cup {With(v) : v \in (0 - Margin)..0}
FadeInputs == {Absent} \cup {With(v) : v \in AroundRange(0, FadeMax)}
StepsInputs == {Absent} \cup {With(v) : v \in AroundRange(StepsMin, StepsMax)}

CommandLines ==
    [increase : StepInputs, decrease : StepInputs, set : SetInputs, get : GetInputs,
     timeout : TimeoutInputs, fade : FadeInputs, steps : StepsInputs]

\* A few command lines, one per path through main() (and one that is
\* rejected), for the specification that enumerates every printed number.
FewCommandLines ==
    {[EmptyCommandLine EXCEPT !.timeout = t, !.get = g] :
        t \in TimeoutInputs, g \in GetInputs}
    \cup {[EmptyCommandLine EXCEPT !.increase = Bare],
          [EmptyCommandLine EXCEPT !.decrease = With(0)],
          [EmptyCommandLine EXCEPT !.set = With(SetMin)],
          [EmptyCommandLine EXCEPT !.set = With(SetMin - 1)]}

(***************************************************************************)
(* What `xbacklight -get` can produce.                                     *)
(***************************************************************************)
\* A printed decimal number is n / Unit.
Number(n) == [kind |-> "number", n |-> n]
SpawnError == [kind |-> "spawn_error", n |-> 0]
ExitNonZero == [kind |-> "exit_nonzero", n |-> 0]
Unparseable == [kind |-> "unparseable", n |-> 0]
NotANumber == [kind |-> "nan", n |-> 0]

NonNumbers == {SpawnError, ExitNonZero, Unparseable, NotANumber}

AllOutputs ==
    NonNumbers \cup {Number(n) : n \in (0 - OutMargin * Unit)..((U8Max + OutMargin) * Unit)}

BandEdgeOutputs ==
    NonNumbers \cup
    {Number(w * Unit + d) : w \in {0, LowBelow, MediumBelow, U8Max + 1}, d \in (0 - Unit)..Unit}

\* f64::round: to the nearest integer, halves away from zero.
Round(n) ==
    IF n >= 0 THEN (2 * n + Unit) \div (2 * Unit)
    ELSE 0 - ((2 * (0 - n) + Unit) \div (2 * Unit))

\* `as u8` on an f64 saturates.
SaturateU8(r) == IF r < 0 THEN 0 ELSE IF r > U8Max THEN U8Max ELSE r

\* `value.round() as u8`; NaN casts to 0.
RoundAsU8(out) == IF out.kind = "nan" THEN 0 ELSE SaturateU8(Round(out.n))

\* Mutant of CurrentBrightness: a failure of the read becomes the value 0.
CurrentBrightnessOrZero(out) ==
    IF out.kind \in {"spawn_error", "exit_nonzero", "unparseable"} THEN {0}
    ELSE {RoundAsU8(out)}

\* get_current_brightness()'s result for an output of the external program.
CurrentBrightness(out) ==
    IF out.kind \in {"spawn_error", "exit_nonzero", "unparseable"} THEN {}
    ELSE {RoundAsU8(out)}

(***************************************************************************)
(* The notification.                                                       *)
(***************************************************************************)
\* Mutant of Icon: the band edges belong to the lower band.
IconInclusive(b) ==
    IF b <= LowBelow THEN "display-brightness-low"
    ELSE IF b <= MediumBelow THEN "display-brightness-medium"
    ELSE "display-brightness-high"

\* The icon display_notification() picks for a brightness.
Icon(b) ==
    IF b < LowBelow THEN "display-brightness-low"
    ELSE IF b < MediumBelow THEN "display-brightness-medium"
    ELSE "display-brightness-high"

\* format!("{}% Brightness", brightness)
Body(b) == <<b, "% Brightness">>

(***************************************************************************)
(* External calls, as recorded in `calls`.                                 *)
(***************************************************************************)
XbCall(op, operands, result) ==
    [target |-> "xbacklight", op |-> op, operands |-> operands, result |-> result]

NotifyCall(b, timeout, result) ==
    [target |-> "notification", op |-> "show",
     operands |-> <<"Brightness", Body(b), Icon(b), timeout, NotificationId>>,
     result |-> result]

CommandOutcomes == {"ok", "spawn_error", "exit_nonzero"}
NotifyOutcomes == {"ok", "error"}

\* Mutant of Succeeded: only a failure to spawn counts as a failure.
Spawned(result) == result # "spawn_error"

\* status.map_or(false, |s| s.success())
Succeeded(result) == result = "ok"

\* A line on standard error: eprintln!("Error: ...") in main.rs, "error: ..." from clap.
Diagnostic(prefix, text, value) == [prefix |-> prefix, text |-> text, value |-> value]

(***************************************************************************)
(* Initial states.                                                         *)
(***************************************************************************)
InitWith(lines) ==
    /\ argv \in lines
    /\ args = ParsedArgs(EmptyCommandLine)
    /\ pc = "parse"
    /\ site = "none"
    /\ xbOutput = {}
    /\ brightness = {}
    /\ shown = {}
    /\ calls = <<>>
    /\ stderr = <<>>
    /\ stdout = <<>>
    /\ exit_code = {}

Init == InitWith(CommandLines)

InitRead == InitWith(FewCommandLines)

(***************************************************************************)
(* main()                                                                  *)
(***************************************************************************)
\* Args::parse(): on an error clap prints it and exits with status 2.
ParseArgs ==
    /\ pc = "parse"
    /\ IF Rejected(argv)
       THEN /\ stderr' = Append(stderr, Diagnostic("error:", "invalid usage", {}))
            /\ exit_code' = {ClapUsageExit}
            /\ pc' = "exited"
            /\ UNCHANGED args
       ELSE /\ args' = ParsedArgs(argv)
            /\ pc' = "branch"
            /\ UNCHANGED <<stderr, exit_code>>
    /\ UNCHANGED <<argv, site, xbOutput, brightness, shown, calls, stdout>>

\* if args.get { display_notification(..) ... }
GetRequested ==
    /\ pc = "branch"
    /\ args.get
    /\ pc' = "read"
    /\ site' = "get"
    /\ UNCHANGED <<argv, args, xbOutput, brightness, shown, calls, stderr, stdout, exit_code>>

\* set_brightness() and the branch of main() that calls it.  cmd.status()
\* spawns the command and waits for its exit, so the call and its outcome
\* are one step.
SetBrightness ==
    /\ pc = "branch"
    /\ ~args.get
    /\ args.set # {}
    /\ \E target \in args.set : \E result \in CommandOutcomes :
        /\ calls' = Append(calls,
                XbCall("-set", <<target, args.fade_time, args.steps>>, result))
        /\ IF Succeeded(result)
           THEN /\ pc' = "read"
                /\ site' = "final"
                /\ UNCHANGED <<stderr, exit_code>>
           ELSE /\ stderr' = Append(stderr,
                        Diagnostic("Error:", "failed to set brightness to", {target}))
                /\ exit_code' = {ExitFailure}
                /\ pc' = "exited"
                /\ UNCHANGED site
    /\ UNCHANGED <<argv, args, xbOutput, brightness, shown, stdout>>

\* Mutant of AdjustCommand: the decrease is looked at first.
AdjustCommandDecreaseFirst(a) ==
    IF a.decrease # {} THEN <<"-dec", CHOOSE v \in a.decrease : TRUE>>
    ELSE <<"-inc", CHOOSE v \in a.increase : TRUE>>

\* The command adjust_brightness() builds: -inc when an increase is present,
\* else -dec.
AdjustCommand(a) ==
    IF a.increase # {} THEN <<"-inc", CHOOSE v \in a.increase : TRUE>>
    ELSE <<"-dec", CHOOSE v \in a.decrease : TRUE>>

\* adjust_brightness() and the branch of main() that calls it.
AdjustBrightness ==
    /\ pc = "branch"
    /\ ~args.get
    /\ args.set = {}
    /\ args.increase # {} \/ args.decrease # {}
    /\ \E result \in CommandOutcomes :
        /\ calls' = Append(calls,
                XbCall(AdjustCommand(args)[1],
                       <<AdjustCommand(args)[2], args.fade_time, args.steps>>, result))
        /\ IF Succeeded(result)
           THEN /\ pc' = "read"
                /\ site' = "final"
                /\ UNCHANGED <<stderr, exit_code>>
           ELSE /\ stderr' = Append(stderr,
                        Diagnostic("Error:", "failed to adjust the brightness level.", {}))
                /\ exit_code' = {ExitFailure}
                /\ pc' = "exited"
                /\ UNCHANGED site
    /\ UNCHANGED <<argv, args, xbOutput, brightness, shown, stdout>>

\* No action flag: main() falls through to the final display_notification().
NoChange ==
    /\ pc = "branch"
    /\ ~args.get
    /\ args.set = {}
    /\ args.increase = {}
    /\ args.decrease = {}
    /\ pc' = "read"
    /\ site' = "final"
    /\ UNCHANGED <<argv, args, xbOutput, brightness, shown, calls, stderr, stdout, exit_code>>

\* get_current_brightness(), called first by display_notification(); a None
\* is returned through `?` without a word.
GetCurrentBrightness(outputs) ==
    /\ pc = "read"
    /\ \E out \in outputs :
        /\ xbOutput' = {out}
        /\ brightness' = CurrentBrightness(out)
        /\ calls' = Append(calls,
                XbCall("-get", <<>>, IF out.kind \in CommandOutcomes THEN out.kind ELSE "ok"))
        /\ IF CurrentBrightness(out) = {}
           THEN /\ shown' = {}
                /\ pc' = "return"
           ELSE /\ pc' = "notify"
                /\ UNCHANGED shown
    /\ UNCHANGED <<argv, args, site, stderr, stdout, exit_code>>

\* The rest of display_notification(): build and show the notification.
ShowNotification ==
    /\ pc = "notify"
    /\ \E b \in brightness : \E result \in NotifyOutcomes :
        /\ calls' = Append(calls, NotifyCall(b, args.timeout, result))
        /\ IF result = "error"
           THEN /\ stderr' = Append(stderr,
                        Diagnostic("Error:", "failed to display notification:", {}))
                /\ shown' = {}
                /\ UNCHANGED stdout
           ELSE /\ stdout' = Append(stdout, <<"Current brightness: ", b, "%">>)
                /\ shown' = {b}
                /\ UNCHANGED stderr
    /\ pc' = "return"
    /\ UNCHANGED <<argv, args, site, xbOutput, brightness, exit_code>>

\* Mutant of ExitStatus: the result of display_notification() is ignored.
ExitStatusIgnoringResult(result) == {ExitSuccess}

\* The status main() ends with, given display_notification()'s result:
\* exit(1) on None; else exit(0) in the get branch, the end of main() otherwise.
ExitStatus(result) == IF result = {} THEN {ExitFailure} ELSE {ExitSuccess}

\* Mutant of MainExit: a failed display_notification() is tried again.
MainExitRetrying ==
    /\ pc = "return"
    /\ IF shown = {}
       THEN /\ pc' = "read"
            /\ UNCHANGED exit_code
       ELSE /\ exit_code' = ExitStatus(shown)
            /\ pc' = "exited"
    /\ UNCHANGED <<argv, args, site, xbOutput, brightness, shown, calls, stderr, stdout>>

\* The end of main(), after display_notification() returned.
MainExit ==
    /\ pc = "return"
    /\ exit_code' = ExitStatus(shown)
    /\ pc' = "exited"
    /\ UNCHANGED <<argv, args, site, xbOutput, brightness, shown, calls, stderr, stdout>>

Next ==
    \/ ParseArgs
    \/ GetRequested
    \/ SetBrightness
    \/ AdjustBrightness
    \/ NoChange
    \/ GetCurrentBrightness(BandEdgeOutputs)
    \/ ShowNotification
    \/ MainExit

Spec == Init /\ [][Next]_vars

NextRead ==
    \/ ParseArgs
    \/ GetRequested
    \/ SetBrightness
    \/ AdjustBrightness
    \/ NoChange
    \/ GetCurrentBrightness(AllOutputs)
    \/ ShowNotification
    \/ MainExit

SpecRead == InitRead /\ [][NextRead]_vars

(***************************************************************************)
(* Reading the record of a run.                                            *)
(***************************************************************************)
IsMutation(c) == c.target = "xbacklight" /\ c.op \in {"-set", "-inc", "-dec"}
IsRead(c) == c.target = "xbacklight" /\ c.op = "-get"
IsNotify(c) == c.target = "notification"

MutationIdx == {i \in DOMAIN calls : IsMutation(calls[i])}
ReadIdx == {i \in DOMAIN calls : IsRead(calls[i])}
NotifyIdx == {i \in DOMAIN calls : IsNotify(calls[i])}

GivenActionFlags == {f \in ActionFlags : argv[f].given}

\* The run ended in the parser: clap's error, status 2, nothing called.
RejectedByParser ==
    /\ pc = "exited"
    /\ exit_code = {ClapUsageExit}
    /\ calls = <<>>
    /\ stdout = <<>>
    /\ Len(stderr) = 1
    /\ stderr[1].prefix = "error:"

\* The parser let the command line through.
Accepted == pc # "parse" /\ ~RejectedByParser

ExitedNonZero == pc = "exited" /\ exit_code # {} /\ ExitSuccess \notin exit_code

\* The command line asks for a change of brightness.
AsksForMutation ==
    argv.set.given \/ argv.increase.given \/ argv.decrease.given

(***************************************************************************)
(* C1: a command line giving two distinct flags of --increase, --decrease, *)
(* --set, --get is rejected by the parser with a non-zero exit, and no     *)
(* xbacklight command and no notification is issued.                       *)
(***************************************************************************)
C1_MutualExclusion ==
    (pc # "parse" /\ Cardinality(GivenActionFlags) >= 2) =>
        (RejectedByParser /\ ExitedNonZero)

\* What the code does enforce: every pair other than --increase with
\* --decrease is rejected.
C1_DeclaredConflictsRejected ==
    (pc # "parse" /\ Cardinality(GivenActionFlags) >= 2
        /\ GivenActionFlags # {"increase", "decrease"}) =>
        (RejectedByParser /\ ExitedNonZero)

(***************************************************************************)
(* C2: the external calls of a run are totally ordered and none is         *)
(* repeated: at most one mutating command, one read, one notification; a   *)
(* read is preceded only by a mutating command that succeeded; the         *)
(* notification is the last call, directly after the successful read, and  *)
(* a run asking for a change has its mutating command first.               *)
(***************************************************************************)
C2_TotalOrder ==
    /\ Cardinality(MutationIdx) <= 1
    /\ Cardinality(ReadIdx) <= 1
    /\ Cardinality(NotifyIdx) <= 1
    /\ \A r \in ReadIdx :
        /\ \A m \in MutationIdx : m < r /\ calls[m].result = "ok"
        /\ AsksForMutation => MutationIdx = {1}
        /\ r = Cardinality(MutationIdx) + 1
    /\ \A k \in NotifyIdx :
        /\ k = Len(calls)
        /\ k - 1 \in ReadIdx
        /\ calls[k - 1].result = "ok"
        /\ k = IF AsksForMutation THEN 3 ELSE 2

C2_Witness ==
    /\ pc = "exited"
    /\ Len(calls) = 3
    /\ IsMutation(calls[1])
    /\ IsRead(calls[2])
    /\ IsNotify(calls[3])
    /\ calls[3].result = "ok"

(***************************************************************************)
(* C3: when the mutating command fails (not spawned, or non-zero exit) the *)
(* run has exited non-zero with one diagnostic (naming the target for      *)
(* -set, "failed to adjust the brightness level" otherwise) and neither    *)
(* the read nor the notification is performed.                             *)
(***************************************************************************)
C3_MutationFailureStops ==
    \A i \in MutationIdx : calls[i].result # "ok" =>
        /\ Len(calls) = i
        /\ ReadIdx = {}
        /\ NotifyIdx = {}
        /\ ExitedNonZero
        /\ stdout = <<>>
        /\ Len(stderr) = 1
        /\ stderr[1].prefix = "Error:"
        /\ IF calls[i].op = "-set"
           THEN /\ stderr[1].text = "failed to set brightness to"
                /\ stderr[1].value = {calls[i].operands[1]}
                /\ stderr[1].value = argv.set.value
           ELSE stderr[1].text = "failed to adjust the brightness level."

C3_Witness ==
    /\ pc = "exited"
    /\ Len(calls) = 1
    /\ calls[1].op = "-set"
    /\ calls[1].result = "exit_nonzero"
    /\ stderr[1].value = {SetMax}

(***************************************************************************)
(* C4: the exit status is 0 exactly when the run was a full success: the   *)
(* arguments were accepted, the mutating command (if asked for) succeeded, *)
(* the read succeeded with a parseable value, and the notification was     *)
(* dispatched successfully.                                                *)
(***************************************************************************)
FullSuccess ==
    /\ Accepted
    /\ (AsksForMutation => \E i \in MutationIdx : calls[i].result = "ok")
    /\ \E i \in ReadIdx : calls[i].result = "ok"
    /\ \E out \in xbOutput : out.kind \in {"number", "nan"}
    /\ \E i \in NotifyIdx : calls[i].result = "ok"

RoundsOutsideU8(out) ==
    out.kind = "number" /\ (Round(out.n) < 0 \/ Round(out.n) > U8Max)

C5_OutOfRangeReadFails ==
    \A out \in xbOutput : RoundsOutsideU8(out) => (brightness = {} /\ NotifyIdx = {})

\* What the code does: the rounded value is saturated to the ends of u8.
C5_OutOfRangeSaturates ==
    \A out \in xbOutput : RoundsOutsideU8(out) =>
        brightness = {IF Round(out.n) < 0 THEN 0 ELSE U8Max}

(***************************************************************************)
(* C6: every run that fails after the arguments were parsed has written a  *)
(* diagnostic prefixed "Error:" to standard error before exiting non-zero. *)
(***************************************************************************)
C6_FailureHasDiagnostic ==
    (pc = "exited" /\ Accepted /\ exit_code # {ExitSuccess}) =>
        \E i \in DOMAIN stderr : stderr[i].prefix = "Error:"

\* What the code does: the diagnostic is missing exactly when the read failed.
C6_SilentOnlyOnReadFailure ==
    (pc = "exited" /\ Accepted /\ exit_code # {ExitSuccess}) =>
        ((\E i \in DOMAIN stderr : stderr[i].prefix = "Error:")
            <=> ~(ReadIdx # {} /\ brightness = {}))

(***************************************************************************)
(* C7: for the value N returned by the read (any of 0..255, not clamped to *)
(* 100) the notification's body is "<N>% Brightness" and its icon is low   *)
(* for N < 33, medium for 33 <= N < 66, high for N >= 66.                  *)
(***************************************************************************)
C7_BodyAndIcon ==
    \A i \in NotifyIdx :
        /\ brightness # {}
        /\ \A N \in brightness :
            /\ N \in 0..U8Max
            /\ \A out \in xbOutput :
                (out.kind = "number" /\ Round(out.n) \in 0..U8Max) => N = Round(out.n)
            /\ calls[i].operands[2] = <<N, "% Brightness">>
            /\ N < 33 => calls[i].operands[3] = "display-brightness-low"
            /\ (33 <= N /\ N < 66) => calls[i].operands[3] = "display-brightness-medium"
            /\ N >= 66 => calls[i].operands[3] = "display-brightness-high"

\* A value above 100 is shown as it is.
C7_Witness ==
    /\ NotifyIdx # {}
    /\ brightness = {U8Max - 1}
    /\ \E i \in NotifyIdx :
        /\ calls[i].operands[2] = <<U8Max - 1, "% Brightness">>
        /\ calls[i].operands[3] = "display-brightness-high"

(***************************************************************************)
(* C8: a notification is attempted in a run if and only if its brightness  *)
(* read succeeded; a failed read ends the run in failure without any       *)
(* notification; "Current brightness: <N>%" is printed only after a        *)
(* notification dispatch that succeeded.                                   *)
(***************************************************************************)
C8_NotifyIffReadSucceeded ==
    /\ NotifyIdx # {} => (brightness # {} /\ \E r \in ReadIdx : calls[r].result = "ok")
    /\ pc \in {"return", "exited"} => ((NotifyIdx # {}) <=> (brightness # {}))
    /\ (ReadIdx # {} /\ brightness = {}) =>
        /\ NotifyIdx = {}
        /\ shown = {}
        /\ pc \in {"return", "exited"}
        /\ pc = "exited" => exit_code = {ExitFailure}
    /\ stdout # <<>> =>
        /\ Len(stdout) = 1
        /\ \E i \in NotifyIdx : calls[i].result = "ok"
        /\ \E N \in brightness : stdout[1] = <<"Current brightness: ", N, "%">>
    /\ (\E i \in NotifyIdx : calls[i].result = "error") => stdout = <<>>

C8_Witness ==
    /\ pc = "exited"
    /\ brightness # {}
    /\ \E i \in NotifyIdx : calls[i].result = "ok"
    /\ Len(stdout) = 1

(***************************************************************************)
(* C9: a --set value of 0 or above 100, a --fade value above 60000, or a   *)
(* --steps value of 0 or above 200 makes the parser reject the command     *)
(* line (non-zero exit, nothing called); the values at the ends of the     *)
(* ranges (set 1, 100; fade 0, 60000; steps 1, 200) are accepted.          *)
(***************************************************************************)
OutOfRange ==
    \/ \E v \in argv.set.value : v = 0 \/ v > 100
    \/ \E v \in argv.fade.value : v > 60000
    \/ \E v \in argv.steps.value : v = 0 \/ v > 200

\* Nothing but --set, --timeout, --fade, --steps is given, each at an end
\* of its range.
OnlyRangeEnds ==
    /\ GivenActionFlags \subseteq {"set"}
    /\ argv.set.value \subseteq {1, 100}
    /\ argv.fade.value \subseteq {0, 60000}
    /\ argv.steps.value \subseteq {1, 200}

C9_RangeRejection ==
    pc # "parse" =>
        /\ OutOfRange => (RejectedByParser /\ ExitedNonZero)
        /\ OnlyRangeEnds => Accepted

C9_Witness ==
    /\ argv.set.value = {SetMax + 1}
    /\ argv.fade.value = {FadeMax}
    /\ argv.steps.value = {StepsMin}
    /\ RejectedByParser

(***************************************************************************)
(* C10: an accepted run issues at most one mutating command, carrying the  *)
(* run's fade time and step count; with both an increase and a decrease    *)
(* value only -inc is issued; an increase or decrease of 0 still issues    *)
(* the command.                                                            *)
(***************************************************************************)
GivenOr(o, default) == IF o.value # {} THEN o.value ELSE {default}

PastBranch == Accepted /\ pc # "branch"

C10_OneMutation ==
    /\ Cardinality(MutationIdx) <= 1
    /\ \A i \in MutationIdx :
        /\ {calls[i].operands[2]} = GivenOr(argv.fade, 100)
        /\ {calls[i].operands[3]} = GivenOr(argv.steps, 25)
    /\ (PastBranch /\ argv.increase.given /\ argv.decrease.given) =>
        /\ MutationIdx = {1}
        /\ calls[1].op = "-inc"
        /\ {calls[1].operands[1]} = GivenOr(argv.increase, 5)
    /\ (PastBranch /\ (0 \in argv.increase.value \/ 0 \in argv.decrease.value)) =>
        MutationIdx = {1}
    /\ (PastBranch /\ 0 \in argv.increase.value) =>
        (calls[1].op = "-inc" /\ calls[1].operands[1] = 0)
    /\ (PastBranch /\ 0 \in argv.decrease.value /\ ~argv.increase.given) =>
        (calls[1].op = "-dec" /\ calls[1].operands[1] = 0)

C10_Witness ==
    /\ pc = "exited"
    /\ argv.increase.value = {0}
    /\ argv.decrease.given
    /\ Len(calls) = 3
    /\ calls[1].op = "-inc"
    /\ calls[1].operands = <<0, FadeMax, StepsMax>>

====
